---- MODULE Spec2Model ----
(***************************************************************************)
(* View-state controllers of the Networking-App client: the home screen   *)
(* (frontend/app/(tabs)/index.tsx, current variant) and the people screen  *)
(* (frontend/app/(tabs)/people.tsx, current variant) over the REST client  *)
(* of frontend/scripts/database.ts.                                        *)
(*                                                                         *)
(* Each screen is a React component: its state variables are the useState  *)
(* cells, each handler is one action (the code up to its first await), and *)
(* each continuation after an await is one action that consumes a request  *)
(* in flight together with the response the network delivers for it.       *)
(***************************************************************************)
EXTENDS Integers, Sequences, FiniteSets, TLC

\* ----------------------------------------------------------------- bounds
MaxHomeInFlight == 3     \* calls of the home screen in flight together
MaxPeopleInFlight == 2   \* calls of the people screen in flight together
MaxEvents == 2           \* entries of user.events, records of a getEvents answer
MaxCreated == 3          \* tasks created on the earlier home screen

\* ------------------------------------------------------------- vocabulary
NoUser == "<no user>"            \* username undefined (home) / '' (people)
Users == {"alice", "bob"}
Null == "<null>"                 \* a string | null state cell holding null
Undefined == "<undefined>"       \* an absent optional field of an envelope

\* Text typed into a form field: a sequence of characters.
Texts == { <<>>, <<" ">>, <<" ", "a", " ">> }
EmptyText == <<>>

\* A handler that forgets to trim the field before it validates and sends it.
trimOmitted(s) == s

RECURSIVE trimStart(_)
trimStart(s) == IF s # <<>> /\ Head(s) = " " THEN trimStart(Tail(s)) ELSE s

RECURSIVE trimEnd(_)
trimEnd(s) ==
  IF s # <<>> /\ s[Len(s)] = " " THEN trimEnd(SubSeq(s, 1, Len(s) - 1)) ELSE s

\* String.prototype.trim as the handlers use it.
trim(s) == trimEnd(trimStart(s))

\* ------------------------------------------------- envelopes of the client
\* What awaiting a gateway call yields: the promise resolves with the parsed
\* body {success, error?, <payload>?} or rejects with an Error (transport
\* failure, or request() throwing on a non-2xx status).
Resolved(success, error, hasData, data) ==
  [outcome |-> "resolved", success |-> success, error |-> error,
   hasData |-> hasData, data |-> data, message |-> Undefined,
   isNull |-> FALSE]

Rejected(message) ==
  [outcome |-> "rejected", success |-> FALSE, error |-> Undefined,
   hasData |-> FALSE, data |-> <<>>, message |-> message,
   isNull |-> FALSE]

\* The promise resolves with null: request() swallowed a body that is no JSON
\* (or the body is the JSON value null) under a 2xx status.
ResolvedNull ==
  [outcome |-> "resolved", success |-> FALSE, error |-> Undefined,
   hasData |-> FALSE, data |-> <<>>, message |-> Undefined,
   isNull |-> TRUE]

\* What reading a property of null throws.
TypeErrorMessage == "TypeError: Cannot read property of null"

\* Messages request() rejects with (serializeError) or fetch throws.
RejectionMessages == {"Request failed with status 500"}

\* error fields a logical failure may carry: absent, empty, or a message.
ErrorFields == {Undefined, "", "Server says no"}

\* Records the backend holds for user u, tagged with their owner.
\* An event document carries _id; id and name are optional fields.
EventFields(u, mongoId, id, name) ==
  [owner |-> u, _id |-> mongoId, id |-> id, name |-> name]
EventRecord(u, id) == EventFields(u, id, Undefined, Undefined)
TaskRecord(u, id, status) == [owner |-> u, id |-> id, status |-> status]

EventLists(u) == { <<>>, <<EventRecord(u, "e1")>> }

TaskLists(u) ==
  { <<>>,
    <<TaskRecord(u, "t1", "pending"), TaskRecord(u, "t2", "completed")>> }

\* GET /get-events?username=u
GetEventsResponses(u) ==
  { Resolved(TRUE, Undefined, TRUE, l) : l \in EventLists(u) }
    \cup { Resolved(FALSE, "Server says no", FALSE, <<>>) }
    \cup { Rejected(m) : m \in RejectionMessages }

\* GET /get-user-tasks?username=u
GetUserTasksResponses(u) ==
  { Resolved(TRUE, Undefined, TRUE, l) : l \in TaskLists(u) }
    \cup { Resolved(FALSE, "Server says no", FALSE, <<>>) }
    \cup { Rejected(m) : m \in RejectionMessages }

ConnectionRecord(u, name) == [owner |-> u, connectionName |-> name]

ConnectionLists(u) == { <<>>, <<ConnectionRecord(u, "c1")>> }

\* GET /get-connections?username=u
GetConnectionsResponses(u) ==
  { Resolved(TRUE, Undefined, TRUE, l) : l \in ConnectionLists(u) }
    \cup { Resolved(TRUE, Undefined, FALSE, <<>>) }
    \cup { Resolved(FALSE, e, FALSE, <<>>) : e \in {Undefined, "Server says no"} }
    \cup { Rejected(m) : m \in RejectionMessages }

\* POST /create-task, POST /add-connection: the envelope without its payload.
MutationResponses ==
  { Resolved(TRUE, Undefined, FALSE, <<>>) }
    \cup { Resolved(FALSE, e, FALSE, <<>>) : e \in ErrorFields }
    \cup { Rejected(m) : m \in RejectionMessages }

\* getFinishedTasks: getUserTasks(username).then(({ tasks }) => filter
\* completed), success always true once the callback ran; destructuring a
\* null body throws inside the callback, which rejects the promise.
CompletedOf(ts) == SelectSeq(ts, LAMBDA t : t.status = "completed")

getFinishedTasks(under) ==
  IF under.outcome = "rejected" THEN under
  ELSE IF under.isNull THEN Rejected(TypeErrorMessage)
  ELSE Resolved(TRUE, Undefined, TRUE,
                CompletedOf(IF under.hasData THEN under.data ELSE <<>>))

\* a || b on string | undefined: the first operand unless it is falsy.
OrElse(a, b) == IF a = Undefined \/ a = "" THEN b ELSE a

\* a ?? b: the first operand unless it is null or undefined.
Coalesce(a, b) == IF a = Undefined THEN b ELSE a

\* ------------------------------------------------------------------ state
VARIABLES
  username,          \* UserContext: the active username, or NoUser
  \* home screen
  fetchedEvents, loadingEvents,
  tasks, loadingTasks, finishedCount,
  modalVisible, taskInfo, formError, isSubmitting,
  eventFetches,      \* getEvents calls in flight, in issue order
  taskLoads,         \* loadTasks calls in flight, in issue order
  createTaskCalls,   \* createTask calls in flight, in issue order
  \* people screen (its modalVisible and formError cells are prefixed)
  connections, loading, error,
  peopleModalVisible, connectionName, connectionNote, peopleFormError,
  isSubmittingConnection,
  connectionLoads,   \* loadConnections calls in flight, in issue order
  addConnectionCalls, \* addConnection calls in flight, in issue order
  \* REST client, one call followed from fetch to settlement
  clientCall, clientResponse, clientResult,
  \* UserContext: the events field of the user record
  profileEvents,
  \* TabLayout: the session user and the sign-in form (its username, loading
  \* and error cells are prefixed)
  user, loginUsername, password, email, phoneNumber, authLoading, authError,
  authCalls,         \* login / register calls in flight
  pressed,           \* the button whose handler ran in the last step, if any
  \* home screen, earlier variant: the tasks created in this session
  createdTasks, taskType,
  \* home screen: the task-details modal
  taskDetailsVisible, selectedTask, isCompletingTask, taskDetailsError,
  updateTaskCalls,   \* updateTask calls in flight, in issue order
  \* camera screen
  scanned, statusMessage,
  scanCalls,         \* the addConnection or createTask call of the scan flow
  resetTimer         \* the 3 s timer of handleBarcodeScanned is pending

homeVars ==
  <<fetchedEvents, loadingEvents, tasks, loadingTasks, finishedCount,
    modalVisible, taskInfo, formError, isSubmitting,
    eventFetches, taskLoads, createTaskCalls>>

peopleVars ==
  <<connections, loading, error, peopleModalVisible, connectionName,
    connectionNote, peopleFormError, isSubmittingConnection,
    connectionLoads, addConnectionCalls>>

clientVars == <<clientCall, clientResponse, clientResult>>

profileVars == <<profileEvents>>

\* The cells of TabLayout and its calls in flight.
formVars ==
  <<user, loginUsername, password, email, phoneNumber, authLoading, authError,
    authCalls>>

sessionVars == <<formVars, pressed>>

earlierVars == <<createdTasks, taskType>>

detailsVars ==
  <<taskDetailsVisible, selectedTask, isCompletingTask, taskDetailsError,
    updateTaskCalls>>

cameraVars == <<scanned, statusMessage, scanCalls, resetTimer>>

vars ==
  <<username, homeVars, peopleVars, clientVars, profileVars, sessionVars,
    earlierVars, detailsVars, cameraVars>>

\* Calls of each screen that are awaiting their answer.
HomeInFlight ==
  Len(eventFetches) + Len(taskLoads) + Len(createTaskCalls)
    + Len(updateTaskCalls)
PeopleInFlight == Len(connectionLoads) + Len(addConnectionCalls)

RemoveAt(s, i) == SubSeq(s, 1, i - 1) \o SubSeq(s, i + 1, Len(s))

\* ------------------------------------------------------------ home screen
\* The screen as mounted under UserContext value u: the useState defaults,
\* then the first run of both [username] effects.
HomeInit(u) ==
  /\ fetchedEvents = <<>>
  /\ loadingEvents = (u # NoUser)
  /\ eventFetches =
       IF u = NoUser THEN <<>>
       ELSE << [user |-> u, stale |-> FALSE, cancelled |-> FALSE] >>
  /\ tasks = <<>>
  /\ finishedCount = 0
  /\ loadingTasks = (u # NoUser)
  /\ taskLoads =
       IF u = NoUser THEN <<>> ELSE << [user |-> u, origin |-> "effect"] >>
  /\ modalVisible = FALSE
  /\ taskInfo = EmptyText
  /\ formError = Null
  /\ isSubmitting = FALSE
  /\ createTaskCalls = <<>>

\* The useState defaults of the screen, before it is mounted (the tabs are
\* mounted when first visited) and while no effect has run.
HomeDefaults == HomeInit(NoUser)

\* An events effect that returns no cleanup: no fetch is ever cancelled.
CancelPreviousOmitted(fetches) == fetches

\* The cleanup of the events effect: the closure's cancelled flag is set for
\* the fetch the previous run of the effect started (the newest one).
CancelPrevious(fetches) ==
  [i \in 1..Len(fetches) |->
     IF i = Len(fetches) THEN [fetches[i] EXCEPT !.cancelled = TRUE]
     ELSE fetches[i]]

\* Bookkeeping of the getEvents calls in flight: each one started before a
\* change of the active username is marked as started under a username that
\* has since changed. No handler reads the mark.
Outdated(calls) == [i \in 1..Len(calls) |-> [calls[i] EXCEPT !.stale = TRUE]]

\* loadTasks up to its await: setLoadingTasks(true) and the two requests of
\* Promise.all go out.
StartLoadTasks(activeUsername, origin) ==
  /\ loadingTasks' = TRUE
  /\ taskLoads' = Append(taskLoads, [user |-> activeUsername, origin |-> origin])

\* The UserContext value changes and the screen re-renders: the cleanup of
\* the events effect runs, then both [username] effects run.
HomeUsernameChange(u) ==
  /\ u # username
  /\ u # NoUser => HomeInFlight + 2 <= MaxHomeInFlight
  /\ username' = u
  /\ IF u = NoUser
       THEN /\ fetchedEvents' = <<>>
            /\ eventFetches' = Outdated(CancelPrevious(eventFetches))
            /\ tasks' = <<>>
            /\ finishedCount' = 0
            /\ UNCHANGED <<loadingEvents, loadingTasks, taskLoads>>
       ELSE /\ loadingEvents' = TRUE
            /\ eventFetches' =
                 Append(Outdated(CancelPrevious(eventFetches)),
                        [user |-> u, stale |-> FALSE, cancelled |-> FALSE])
            /\ StartLoadTasks(u, "effect")
            /\ UNCHANGED <<fetchedEvents, tasks, finishedCount>>
  /\ UNCHANGED <<modalVisible, taskInfo, formError, isSubmitting, createTaskCalls>>
  /\ UNCHANGED <<peopleVars, clientVars, profileVars, sessionVars,
                 earlierVars, detailsVars, cameraVars>>

\* getEvents settles: .then / .catch / .finally of the events effect.
HomeEventsSettled(i, response) ==
  LET f == eventFetches[i] IN
  /\ eventFetches' = RemoveAt(eventFetches, i)
  /\ fetchedEvents' =
       IF ~f.cancelled /\ response.outcome = "resolved"
          /\ response.success /\ response.hasData
         THEN response.data ELSE fetchedEvents
  /\ loadingEvents' = IF f.cancelled THEN loadingEvents ELSE FALSE
  /\ UNCHANGED <<peopleVars, clientVars, profileVars, sessionVars,
                 earlierVars, detailsVars, cameraVars>>
  /\ UNCHANGED <<username, tasks, loadingTasks, finishedCount,
                 modalVisible, taskInfo, formError, isSubmitting,
                 taskLoads, createTaskCalls>>

\* Promise.all([getUserTasks, getFinishedTasks]) of one loadTasks call
\* settles: the try / catch / finally of loadTasks, then the rest of the
\* handler that awaited it. tasksResponse is what GET /get-user-tasks answered
\* to getUserTasks, under what it answered to the request getFinishedTasks made.
LoadTasksApply(tasksResponse, finishedResponse) ==
  IF tasksResponse.outcome = "rejected" \/ finishedResponse.outcome = "rejected"
    THEN /\ UNCHANGED <<tasks, finishedCount>>
    ELSE /\ tasks' = IF tasksResponse.success /\ tasksResponse.hasData
                       THEN tasksResponse.data ELSE tasks
         /\ finishedCount' =
              IF finishedResponse.success /\ finishedResponse.hasData
                THEN Len(finishedResponse.data) ELSE finishedCount

\* selectedTask is null.
NoTask == [owner |-> NoUser, _id |-> Undefined, id |-> Undefined,
           status |-> Undefined]

\* The state updates of handleCloseTaskDetails.
CloseTaskDetails ==
  /\ taskDetailsVisible' = FALSE
  /\ selectedTask' = NoTask
  /\ taskDetailsError' = Null
  /\ isCompletingTask' = FALSE

HomeTasksSettled(i, tasksResponse, under) ==
  LET load == taskLoads[i] IN
  /\ taskLoads' = RemoveAt(taskLoads, i)
  /\ LoadTasksApply(tasksResponse, getFinishedTasks(under))
  /\ loadingTasks' = FALSE
  /\ isSubmitting' = IF load.origin = "createTask" THEN FALSE ELSE isSubmitting
  /\ IF load.origin = "completeTask"
       THEN CloseTaskDetails /\ UNCHANGED updateTaskCalls
       ELSE UNCHANGED detailsVars
  /\ UNCHANGED <<peopleVars, clientVars, profileVars, sessionVars,
                 earlierVars, cameraVars>>
  /\ UNCHANGED <<username, fetchedEvents, loadingEvents,
                 modalVisible, taskInfo, formError, eventFetches,
                 createTaskCalls>>

\* The "+" button of the Tasks section.
handleOpenModal ==
  /\ ~modalVisible
  /\ taskInfo' = EmptyText
  /\ formError' = Null
  /\ modalVisible' = TRUE
  /\ UNCHANGED <<peopleVars, clientVars, profileVars, sessionVars,
                 earlierVars, detailsVars, cameraVars>>
  /\ UNCHANGED <<username, fetchedEvents, loadingEvents, tasks,
                 loadingTasks, finishedCount, isSubmitting, eventFetches,
                 taskLoads, createTaskCalls>>

\* Cancel, or the platform's request to close the create-task modal.
handleCloseModal ==
  /\ modalVisible
  /\ modalVisible' = FALSE
  /\ UNCHANGED <<peopleVars, clientVars, profileVars, sessionVars,
                 earlierVars, detailsVars, cameraVars>>
  /\ UNCHANGED <<username, fetchedEvents, loadingEvents, tasks,
                 loadingTasks, finishedCount, taskInfo, formError,
                 isSubmitting, eventFetches, taskLoads, createTaskCalls>>

\* onChangeText of the task description input.
setTaskInfo(text) ==
  /\ modalVisible
  /\ text # taskInfo
  /\ taskInfo' = text
  /\ UNCHANGED <<peopleVars, clientVars, profileVars, sessionVars,
                 earlierVars, detailsVars, cameraVars>>
  /\ UNCHANGED <<username, fetchedEvents, loadingEvents, tasks,
                 loadingTasks, finishedCount, modalVisible, formError,
                 isSubmitting, eventFetches, taskLoads, createTaskCalls>>

\* "Save task" (disabled while isSubmitting): handleCreateTask up to its await.
handleCreateTask ==
  /\ modalVisible
  /\ ~isSubmitting
  /\ IF username = NoUser
       THEN /\ formError' = "User not available"
            /\ UNCHANGED <<isSubmitting, createTaskCalls>>
       ELSE IF trim(taskInfo) = EmptyText
       THEN /\ formError' = "Task info is required"
            /\ UNCHANGED <<isSubmitting, createTaskCalls>>
       ELSE /\ HomeInFlight < MaxHomeInFlight
            /\ isSubmitting' = TRUE
            /\ formError' = Null
            /\ createTaskCalls' =
                 Append(createTaskCalls,
                        [user |-> username, info |-> trim(taskInfo)])
  /\ UNCHANGED <<peopleVars, clientVars, profileVars, sessionVars,
                 earlierVars, detailsVars, cameraVars>>
  /\ UNCHANGED <<username, fetchedEvents, loadingEvents, tasks,
                 loadingTasks, finishedCount, modalVisible, taskInfo,
                 eventFetches, taskLoads>>

\* A handleCreateTask that goes on whenever createTask resolved, without
\* looking at the envelope's success field.
CreateTaskSucceededUnchecked(response) == TRUE

\* if (response.success) of handleCreateTask.
CreateTaskSucceeded(response) == response.success

\* createTask settles: the rest of handleCreateTask up to its next await
\* (loadTasks on success) or through its finally.
HomeCreateTaskSettled(i, response) ==
  LET call == createTaskCalls[i] IN
  /\ createTaskCalls' = RemoveAt(createTaskCalls, i)
  /\ IF response.outcome = "rejected"
       THEN /\ formError' = response.message
            /\ isSubmitting' = FALSE
            /\ UNCHANGED <<modalVisible, loadingTasks, taskLoads>>
       ELSE IF CreateTaskSucceeded(response)
       THEN /\ modalVisible' = FALSE
            /\ StartLoadTasks(call.user, "createTask")
            /\ UNCHANGED <<formError, isSubmitting>>
       ELSE /\ formError' = OrElse(response.error, "Failed to create task")
            /\ isSubmitting' = FALSE
            /\ UNCHANGED <<modalVisible, loadingTasks, taskLoads>>
  /\ UNCHANGED <<peopleVars, clientVars, profileVars, sessionVars,
                 earlierVars, detailsVars, cameraVars>>
  /\ UNCHANGED <<username, fetchedEvents, loadingEvents, tasks,
                 finishedCount, taskInfo, eventFetches>>

HomeNext ==
  \/ \E u \in Users \cup {NoUser} : HomeUsernameChange(u)
  \/ \E i \in 1..Len(eventFetches) :
       \E r \in GetEventsResponses(eventFetches[i].user) : HomeEventsSettled(i, r)
  \/ \E i \in 1..Len(taskLoads) :
       \E r1, r2 \in GetUserTasksResponses(taskLoads[i].user) :
         HomeTasksSettled(i, r1, r2)
  \/ handleOpenModal
  \/ handleCloseModal
  \/ \E text \in Texts : setTaskInfo(text)
  \/ handleCreateTask
  \/ \E i \in 1..Len(createTaskCalls) :
       \E r \in MutationResponses : HomeCreateTaskSettled(i, r)


\* ---------------------------------------------------------- people screen
\* The screen as mounted under UserContext value u: the useState defaults,
\* then the first run of the [loadConnections, username] effect.
PeopleInit(u) ==
  /\ connections = <<>>
  /\ loading = (u # NoUser)
  /\ error = Null
  /\ connectionLoads =
       IF u = NoUser THEN <<>>
       ELSE << [user |-> u, origin |-> "effect"] >>
  /\ peopleModalVisible = FALSE
  /\ connectionName = EmptyText
  /\ connectionNote = EmptyText
  /\ peopleFormError = Null
  /\ isSubmittingConnection = FALSE
  /\ addConnectionCalls = <<>>

PeopleDefaults == PeopleInit(NoUser)

\* loadConnections up to its await; activeUsername is the username of the
\* render whose closure is called.
StartLoadConnections(activeUsername, origin) ==
  /\ loading' = TRUE
  /\ error' = Null
  /\ connectionLoads' =
       Append(connectionLoads, [user |-> activeUsername, origin |-> origin])

\* The UserContext value changes and the screen re-renders: the
\* [loadConnections, username] effect runs (it has no cleanup).
PeopleUsernameChange(u) ==
  /\ u # username
  /\ u # NoUser => PeopleInFlight < MaxPeopleInFlight
  /\ username' = u
  /\ IF u = NoUser
       THEN UNCHANGED <<loading, error, connectionLoads>>
       ELSE StartLoadConnections(u, "effect")
  /\ UNCHANGED <<connections, peopleModalVisible, connectionName,
                 connectionNote, peopleFormError, isSubmittingConnection,
                 addConnectionCalls>>
  /\ UNCHANGED <<homeVars, clientVars, profileVars, sessionVars,
                 earlierVars, detailsVars, cameraVars>>

\* getConnections settles: the try / catch / finally of loadConnections.
PeopleConnectionsSettled(i, response) ==
  /\ connectionLoads' = RemoveAt(connectionLoads, i)
  /\ IF response.outcome = "rejected"
       THEN /\ error' = response.message
            /\ UNCHANGED connections
       ELSE IF response.success
       THEN /\ connections' = IF response.hasData THEN response.data ELSE <<>>
            /\ UNCHANGED error
       ELSE /\ error' = Coalesce(response.error, "Unable to load connections")
            /\ UNCHANGED connections
  /\ loading' = FALSE
  /\ UNCHANGED <<username, peopleModalVisible, connectionName, connectionNote,
                 peopleFormError, isSubmittingConnection, addConnectionCalls>>
  /\ UNCHANGED <<homeVars, clientVars, profileVars, sessionVars,
                 earlierVars, detailsVars, cameraVars>>

\* The "+" button of the header: setModalVisible(true).
openConnectionModal ==
  /\ ~peopleModalVisible
  /\ peopleModalVisible' = TRUE
  /\ UNCHANGED <<username, connections, loading, error, connectionName,
                 connectionNote, peopleFormError, isSubmittingConnection,
                 connectionLoads, addConnectionCalls>>
  /\ UNCHANGED <<homeVars, clientVars, profileVars, sessionVars,
                 earlierVars, detailsVars, cameraVars>>

\* A reset that forgets the note field.
resetConnectionFormNameOnly ==
  /\ connectionName' = EmptyText
  /\ UNCHANGED connectionNote

resetConnectionForm ==
  /\ connectionName' = EmptyText
  /\ connectionNote' = EmptyText

\* The state updates of handleDismissModal.
DismissModal ==
  /\ peopleModalVisible' = FALSE
  /\ peopleFormError' = Null
  /\ resetConnectionForm
  /\ isSubmittingConnection' = FALSE

\* Cancel, or the platform's request to close the add-connection modal.
handleDismissModal ==
  /\ peopleModalVisible
  /\ DismissModal
  /\ UNCHANGED <<username, connections, loading, error, connectionLoads,
                 addConnectionCalls>>
  /\ UNCHANGED <<homeVars, clientVars, profileVars, sessionVars,
                 earlierVars, detailsVars, cameraVars>>

\* onChangeText of the two inputs of the add-connection form.
setConnectionName(text) ==
  /\ peopleModalVisible
  /\ text # connectionName
  /\ connectionName' = text
  /\ UNCHANGED <<username, connections, loading, error, peopleModalVisible,
                 connectionNote, peopleFormError, isSubmittingConnection,
                 connectionLoads, addConnectionCalls>>
  /\ UNCHANGED <<homeVars, clientVars, profileVars, sessionVars,
                 earlierVars, detailsVars, cameraVars>>

setConnectionNote(text) ==
  /\ peopleModalVisible
  /\ text # connectionNote
  /\ connectionNote' = text
  /\ UNCHANGED <<username, connections, loading, error, peopleModalVisible,
                 connectionName, peopleFormError, isSubmittingConnection,
                 connectionLoads, addConnectionCalls>>
  /\ UNCHANGED <<homeVars, clientVars, profileVars, sessionVars,
                 earlierVars, detailsVars, cameraVars>>

\* "Save connection" (disabled while isSubmittingConnection):
\* handleCreateConnection up to its await.
handleCreateConnection ==
  /\ peopleModalVisible
  /\ ~isSubmittingConnection
  /\ IF username = NoUser
       THEN /\ peopleFormError' = "Current user is unavailable"
            /\ UNCHANGED <<isSubmittingConnection, addConnectionCalls>>
       ELSE IF trim(connectionName) = EmptyText \/ trim(connectionNote) = EmptyText
       THEN /\ peopleFormError' = "Name and note are required"
            /\ UNCHANGED <<isSubmittingConnection, addConnectionCalls>>
       ELSE /\ PeopleInFlight < MaxPeopleInFlight
            /\ isSubmittingConnection' = TRUE
            /\ peopleFormError' = Null
            /\ addConnectionCalls' =
                 Append(addConnectionCalls,
                        [user |-> username,
                         connectionName |-> trim(connectionName),
                         note |-> trim(connectionNote)])
  /\ UNCHANGED <<username, connections, loading, error, peopleModalVisible,
                 connectionName, connectionNote, connectionLoads>>
  /\ UNCHANGED <<homeVars, clientVars, profileVars, sessionVars,
                 earlierVars, detailsVars, cameraVars>>

\* addConnection settles: the rest of handleCreateConnection, through its
\* finally. `await addConnection(...)` drops the envelope it resolves with, so
\* every resolved call goes on to dismiss and reload, whatever its success
\* field; only a thrown error reaches the catch. loadConnections is the
\* closure of the render that submitted.
PeopleAddConnectionSettled(i, response) ==
  LET call == addConnectionCalls[i] IN
  /\ addConnectionCalls' = RemoveAt(addConnectionCalls, i)
  /\ IF response.outcome = "resolved"
       THEN /\ DismissModal
            /\ StartLoadConnections(call.user, "addConnection")
       ELSE /\ peopleFormError' = response.message
            /\ isSubmittingConnection' = FALSE
            /\ UNCHANGED <<peopleModalVisible, connectionName, connectionNote,
                           loading, error, connectionLoads>>
  /\ UNCHANGED <<username, connections>>
  /\ UNCHANGED <<homeVars, clientVars, profileVars, sessionVars,
                 earlierVars, detailsVars, cameraVars>>

\* ------------------------------------------------------------ REST client
\* HTTP statuses of a Response; response.ok is status in 200..299.
Statuses == {200, 204, 401, 500}

ok(status) == status >= 200 /\ status <= 299

\* JSON values of a body's error field, tagged with their type.
Absent == [t |-> "absent", v |-> ""]
JsonNull == [t |-> "null", v |-> ""]
JsonString(str) == [t |-> "string", v |-> str]
JsonNumber(digits) == [t |-> "number", v |-> digits]

ErrorValues ==
  {Absent, JsonNull, JsonString(""), JsonString("bad creds"), JsonNumber("42")}

\* The tasks field of a body: absent, or an array of task records.
NoTasks == [present |-> FALSE, list |-> <<>>]

ClientTaskLists ==
  { <<>>,
    <<TaskRecord("alice", "t1", "pending")>>,
    <<TaskRecord("alice", "t1", "completed"),
      TaskRecord("alice", "t2", "pending"),
      TaskRecord("alice", "t3", "completed")>> }

TasksFields == {NoTasks} \cup { [present |-> TRUE, list |-> l] : l \in ClientTaskLists }

\* A response body: text that is no JSON, or a JSON value; an object carries
\* the fields the client reads.
Body(kind, success, errorField, tasksField) ==
  [kind |-> kind, success |-> success, error |-> errorField, tasks |-> tasksField]

NoFields(kind) == Body(kind, FALSE, Absent, NoTasks)

ResponseBodies ==
  { NoFields(k) : k \in {"unparseable", "null", "string", "array"} }
    \cup { Body("object", b, e, t) : b \in BOOLEAN, e \in ErrorValues, t \in TasksFields }

\* try { responseBody = await response.json() } catch { /* ignore */ }
responseJson(body) ==
  IF body.kind = "unparseable" THEN NoFields("null") ELSE body

\* A serializeError that ignores the body.
serializeErrorStatusOnly(status, body) ==
  "Request failed with status " \o ToString(status)

serializeError(status, body) ==
  LET defaultMessage == "Request failed with status " \o ToString(status)
      message == body.error
  IN  IF body.kind \in {"object", "array"} /\ message.t = "string" /\ message.v # ""
        THEN message.v
        ELSE defaultMessage

\* `return responseBody as JsonResponse<T>`: the value the caller receives,
\* seen through the fields callers read (a non-string error reads as absent).
AsJsonResponse(body) ==
  IF body.kind = "null" THEN ResolvedNull
  ELSE Resolved(body.success,
                IF body.error.t = "string" THEN body.error.v ELSE Undefined,
                body.tasks.present, body.tasks.list)

\* A request that lets the JSON parse error of the body escape.
requestParseErrorEscapes(status, body) ==
  IF body.kind = "unparseable" THEN Rejected("SyntaxError: JSON Parse error")
  ELSE IF ~ok(status) THEN Rejected(serializeError(status, body))
  ELSE AsJsonResponse(body)

\* request(): what the promise settles with once fetch has delivered a
\* Response with this status and body.
request(status, body) ==
  LET responseBody == responseJson(body)
  IN  IF ~ok(status) THEN Rejected(serializeError(status, responseBody))
      ELSE AsJsonResponse(responseBody)

\* Client functions followed by the client specification.
ClientFunctions == {"getUserTasks", "getFinishedTasks"}

NoResponse == [status |-> 0, body |-> NoFields("none")]

NotSettled(state) ==
  [outcome |-> state, success |-> FALSE, error |-> Undefined,
   hasData |-> FALSE, data |-> <<>>, message |-> Undefined,
   isNull |-> FALSE]

ClientIdle ==
  /\ clientCall = "none"
  /\ clientResponse = NoResponse
  /\ clientResult = NotSettled("none")

\* A caller invokes a client function: request() runs up to `await fetch`.
ClientCall(fn) ==
  /\ clientResult.outcome # "pending"
  /\ clientCall' = fn
  /\ clientResponse' = NoResponse
  /\ clientResult' = NotSettled("pending")
  /\ UNCHANGED <<username, homeVars, peopleVars, profileVars, sessionVars,
                 earlierVars, detailsVars, cameraVars>>

\* fetch delivers a Response: the rest of request(), then the .then callback
\* of getFinishedTasks when that is the function called.
ClientResponds(status, body) ==
  /\ clientResult.outcome = "pending"
  /\ clientResponse' = [status |-> status, body |-> body]
  /\ clientResult' = IF clientCall = "getFinishedTasks"
                       THEN getFinishedTasks(request(status, body))
                       ELSE request(status, body)
  /\ UNCHANGED <<clientCall, username, homeVars, peopleVars, profileVars,
                 sessionVars,
                 earlierVars, detailsVars, cameraVars>>

\* fetch rejects (no Response): the error propagates through request().
ClientFetchFails ==
  /\ clientResult.outcome = "pending"
  /\ clientResult' = Rejected("Network request failed")
  /\ UNCHANGED <<clientCall, clientResponse, username, homeVars, peopleVars,
                 profileVars, sessionVars,
                 earlierVars, detailsVars, cameraVars>>

ClientNext ==
  \/ \E fn \in ClientFunctions : ClientCall(fn)
  \/ \E status \in Statuses : \E body \in ResponseBodies :
       ClientResponds(status, body)
  \/ ClientFetchFails

\* ----------------------------------------------------- session (TabLayout)
\* The session user: null until a login or register succeeds.
NoSessionUser == [present |-> FALSE, username |-> NoUser]
UserRecord(u) == [present |-> TRUE, username |-> u]

\* Values of the phone number input.
PhoneTexts == { <<>>, <<" ">>, <<"7">>, <<" ", "7", " ">>, <<"7", "a">> }

Digits == {"1", "7"}
DigitValue(c) == IF c = "1" THEN 1 ELSE 7

\* Number(str) on trimmed input over digits and letters: '' is 0, a string
\* of digits is its decimal value, anything else is NaN.
DecimalValue(s) ==
  LET RECURSIVE value(_)
      value(k) == IF k = 0 THEN 0 ELSE 10 * value(k - 1) + DigitValue(s[k])
  IN  value(Len(s))

Number(s) ==
  IF \A k \in 1..Len(s) : s[k] \in Digits
    THEN [isNaN |-> FALSE, value |-> DecimalValue(s)]
    ELSE [isNaN |-> TRUE, value |-> 0]

\* POST /login, POST /register: the user payload, when there is one, is the
\* single element of data.
AuthResponses ==
  { Resolved(TRUE, Undefined, TRUE, <<UserRecord(u)>>) : u \in Users }
    \cup { Resolved(TRUE, Undefined, FALSE, <<>>),
           Resolved(FALSE, Undefined, TRUE, <<UserRecord("alice")>>) }
    \cup { Resolved(FALSE, e, FALSE, <<>>) : e \in ErrorFields }
    \cup { Rejected(m) : m \in RejectionMessages }

SessionDefaults ==
  /\ user = NoSessionUser
  /\ loginUsername = EmptyText /\ password = EmptyText
  /\ email = EmptyText /\ phoneNumber = EmptyText
  /\ authLoading = FALSE
  /\ authError = Null
  /\ authCalls = <<>>
  /\ pressed = "none"

isLoginEnabled ==
  Len(trim(loginUsername)) > 0 /\ Len(trim(password)) > 0 /\ ~authLoading

isRegisterEnabled ==
  isLoginEnabled /\ Len(trim(email)) > 0 /\ Len(trim(phoneNumber)) > 0

\* The sign-in form is what TabLayout renders while there is no user.
FormRendered == ~user.present

setLoginUsername(text) ==
  /\ FormRendered /\ text # loginUsername
  /\ loginUsername' = text
  /\ UNCHANGED <<user, password, email, phoneNumber, authLoading, authError,
                 authCalls>>
  /\ pressed' = "none"
  /\ UNCHANGED <<username, homeVars, peopleVars, clientVars, profileVars,
                 earlierVars, detailsVars, cameraVars>>

\* The password input is editable={!loading}.
setPassword(text) ==
  /\ FormRendered /\ ~authLoading /\ text # password
  /\ password' = text
  /\ UNCHANGED <<user, loginUsername, email, phoneNumber, authLoading,
                 authError, authCalls>>
  /\ pressed' = "none"
  /\ UNCHANGED <<username, homeVars, peopleVars, clientVars, profileVars,
                 earlierVars, detailsVars, cameraVars>>

setEmail(text) ==
  /\ FormRendered /\ text # email
  /\ email' = text
  /\ UNCHANGED <<user, loginUsername, password, phoneNumber, authLoading,
                 authError, authCalls>>
  /\ pressed' = "none"
  /\ UNCHANGED <<username, homeVars, peopleVars, clientVars, profileVars,
                 earlierVars, detailsVars, cameraVars>>

setPhoneNumber(text) ==
  /\ FormRendered /\ text # phoneNumber
  /\ phoneNumber' = text
  /\ UNCHANGED <<user, loginUsername, password, email, authLoading, authError,
                 authCalls>>
  /\ pressed' = "none"
  /\ UNCHANGED <<username, homeVars, peopleVars, clientVars, profileVars,
                 earlierVars, detailsVars, cameraVars>>

AuthCall(kind, phone) ==
  [kind |-> kind, username |-> loginUsername, password |-> password,
   email |-> IF kind = "register" THEN email ELSE EmptyText,
   phoneNumber |-> phone]

\* handleLogin up to its await.
handleLogin ==
  /\ FormRendered
  /\ IF ~isLoginEnabled
       THEN UNCHANGED formVars
       ELSE /\ authLoading' = TRUE
            /\ authError' = Null
            /\ authCalls' = Append(authCalls, AuthCall("login", 0))
            /\ UNCHANGED <<user, loginUsername, password, email, phoneNumber>>
  /\ pressed' = "login"
  /\ UNCHANGED <<username, homeVars, peopleVars, clientVars, profileVars,
                 earlierVars, detailsVars, cameraVars>>

\* A handleRegister that tests the phone number before the other fields.
handleRegisterPhoneFirst ==
  LET parsedPhone == Number(trim(phoneNumber)) IN
  /\ FormRendered
  /\ IF parsedPhone.isNaN
       THEN /\ authError' = "Phone number must be numeric"
            /\ UNCHANGED <<user, loginUsername, password, email, phoneNumber,
                           authLoading, authCalls>>
       ELSE IF ~isRegisterEnabled
       THEN UNCHANGED formVars
       ELSE /\ authLoading' = TRUE
            /\ authError' = Null
            /\ authCalls' =
                 Append(authCalls, AuthCall("register", parsedPhone.value))
            /\ UNCHANGED <<user, loginUsername, password, email, phoneNumber>>
  /\ pressed' = "register"
  /\ UNCHANGED <<username, homeVars, peopleVars, clientVars, profileVars,
                 earlierVars, detailsVars, cameraVars>>

\* handleRegister up to its await.
handleRegister ==
  LET parsedPhone == Number(trim(phoneNumber)) IN
  /\ FormRendered
  /\ IF ~isRegisterEnabled
       THEN UNCHANGED formVars
       ELSE IF parsedPhone.isNaN
       THEN /\ authError' = "Phone number must be numeric"
            /\ UNCHANGED <<user, loginUsername, password, email, phoneNumber,
                           authLoading, authCalls>>
       ELSE /\ authLoading' = TRUE
            /\ authError' = Null
            /\ authCalls' =
                 Append(authCalls, AuthCall("register", parsedPhone.value))
            /\ UNCHANGED <<user, loginUsername, password, email, phoneNumber>>
  /\ pressed' = "register"
  /\ UNCHANGED <<username, homeVars, peopleVars, clientVars, profileVars,
                 earlierVars, detailsVars, cameraVars>>

\* An acceptance test that looks at the user payload alone.
AuthAcceptedOnPayloadAlone(response) == response.hasData

\* if (response.success && response.user)
AuthAccepted(response) == response.success /\ response.hasData

DefaultAuthError(kind) ==
  IF kind = "login" THEN "Login failed" ELSE "Registration failed"

\* login / register settles: the rest of handleLogin / handleRegister through
\* its finally. A user set here is what UserContext provides from then on.
AuthSettled(i, response) ==
  LET call == authCalls[i] IN
  /\ authCalls' = RemoveAt(authCalls, i)
  /\ IF response.outcome = "rejected"
       THEN /\ authError' = response.message
            /\ UNCHANGED <<user, username, loginUsername, password, email,
                           phoneNumber>>
       ELSE IF AuthAccepted(response)
       THEN /\ user' = response.data[1]
            /\ username' = response.data[1].username
            /\ loginUsername' = EmptyText
            /\ password' = EmptyText
            /\ email' = IF call.kind = "register" THEN EmptyText ELSE email
            /\ phoneNumber' =
                 IF call.kind = "register" THEN EmptyText ELSE phoneNumber
            /\ UNCHANGED authError
       ELSE /\ authError' = Coalesce(response.error, DefaultAuthError(call.kind))
            /\ UNCHANGED <<user, username, loginUsername, password, email,
                           phoneNumber>>
  /\ authLoading' = FALSE
  /\ pressed' = "none"
  /\ UNCHANGED <<homeVars, peopleVars, clientVars, profileVars,
                 earlierVars, detailsVars, cameraVars>>

SessionNext ==
  \/ \E text \in Texts : setLoginUsername(text)
  \/ \E text \in Texts : setPassword(text)
  \/ \E text \in Texts : setEmail(text)
  \/ \E text \in PhoneTexts : setPhoneNumber(text)
  \/ handleLogin
  \/ handleRegister
  \/ \E i \in 1..Len(authCalls) : \E r \in AuthResponses : AuthSettled(i, r)

\* ------------------------------------------------------------ user profile
\* user?.events as UserContext supplies it: absent, a value that is no array,
\* or an array of entries (event ids, embedded objects, anything JSON holds).
NotAnArray(shape) == [shape |-> shape, entries |-> <<>>]

\* No user record, or one without an events field.
ProfileDefaults == profileEvents = NotAnArray("absent")

EventEntry(kind, value, mongoId, id, name) ==
  [kind |-> kind, value |-> value, _id |-> mongoId, id |-> id, name |-> name]

StringEntry(str) == EventEntry("string", str, Undefined, Undefined, Undefined)
ObjectEntry(mongoId, id, name) == EventEntry("object", Undefined, mongoId, id, name)
NullEntry == EventEntry("null", Undefined, Undefined, Undefined, Undefined)
NumberEntry == EventEntry("number", Undefined, Undefined, Undefined, Undefined)

EventEntries ==
  { StringEntry("evt-9"), StringEntry(""),
    ObjectEntry("A", "B", "Launch"), ObjectEntry(Undefined, "B", Undefined),
    ObjectEntry(Undefined, Undefined, Undefined), ObjectEntry("", "B", ""),
    NullEntry, NumberEntry }

ListsOver(S) == UNION { [1..n -> S] : n \in 0..MaxEvents }

ProfileEventValues ==
  { NotAnArray(shape) : shape \in {"absent", "string", "object"} }
    \cup { [shape |-> "array", entries |-> l] : l \in ListsOver(EventEntries) }

\* Event documents GET /get-events may return for alice.
FetchedEventRecords ==
  { EventRecord("alice", "e1"),
    EventFields("alice", Undefined, "e2", "Kickoff"),
    EventFields("alice", Undefined, Undefined, Undefined) }

FetchedEventsResponses ==
  { Resolved(TRUE, Undefined, TRUE, l) : l \in ListsOver(FetchedEventRecords) }

\* const userEvents = Array.isArray(user?.events) ? user.events : [];
userEvents ==
  IF profileEvents.shape = "array" THEN profileEvents.entries ELSE <<>>

\* One record of the display list; i is the 0-based index of map().
DisplayEvent(id, name) == [id |-> id, name |-> name]

fetchedEventAt(e, i) ==
  DisplayEvent(OrElse(OrElse(e._id, e.id), "event-" \o ToString(i)),
               OrElse(e.name, "Event " \o ToString(i + 1)))

\* A mapping of user.events that prefers id to _id.
userEventAtIdFirst(e, i) ==
  IF e.kind = "string"
    THEN DisplayEvent(e.value, "Event " \o ToString(i + 1))
    ELSE DisplayEvent(OrElse(OrElse(e.id, e._id), "event-" \o ToString(i)),
                      OrElse(e.name, "Event " \o ToString(i + 1)))

\* A mapping of user.events that numbers the names from 0.
userEventAtNameFromZero(e, i) ==
  IF e.kind = "string"
    THEN DisplayEvent(e.value, "Event " \o ToString(i))
    ELSE DisplayEvent(OrElse(OrElse(e._id, e.id), "event-" \o ToString(i)),
                      OrElse(e.name, "Event " \o ToString(i)))

\* The callback of userEvents.map for an entry that is not null: a string is
\* an id; of anything else the properties _id, id, name are read (undefined on
\* a number).
userEventAt(e, i) ==
  IF e.kind = "string"
    THEN DisplayEvent(e.value, "Event " \o ToString(i + 1))
    ELSE DisplayEvent(OrElse(OrElse(e._id, e.id), "event-" \o ToString(i)),
                      OrElse(e.name, "Event " \o ToString(i + 1)))

\* Outcome of evaluating the `events` expression during a render.
Derived(list) == [threw |-> FALSE, list |-> list]
Threw == [threw |-> TRUE, list |-> <<>>]

\* A derivation that appends the profile's entries to the fetched records.
eventsFromMerging(fetched, entries) ==
  IF \E k \in 1..Len(entries) : entries[k].kind = "null" THEN Threw
  ELSE Derived([k \in 1..Len(fetched) |-> fetchedEventAt(fetched[k], k - 1)]
                 \o [k \in 1..Len(entries) |-> userEventAt(entries[k], k - 1)])

\* fetchedEvents.length > 0 ? fetchedEvents.map(...) : userEvents.map(...);
\* reading obj._id of a null entry throws a TypeError.
eventsFrom(fetched, entries) ==
  IF Len(fetched) > 0
    THEN Derived([k \in 1..Len(fetched) |-> fetchedEventAt(fetched[k], k - 1)])
  ELSE IF \E k \in 1..Len(entries) : entries[k].kind = "null"
    THEN Threw
  ELSE Derived([k \in 1..Len(entries) |-> userEventAt(entries[k], k - 1)])

\* A derivation that maps user.events without testing that it is an array.
eventsUnguarded ==
  IF Len(fetchedEvents) = 0 /\ profileEvents.shape # "array" THEN Threw
  ELSE eventsFrom(fetchedEvents, profileEvents.entries)

\* The display list of the current render.
events == eventsFrom(fetchedEvents, userEvents)

\* UserContext supplies a user record with another events field.
ProfileChange(value) ==
  /\ value # profileEvents
  /\ profileEvents' = value
  /\ UNCHANGED <<username, homeVars, peopleVars, clientVars, sessionVars,
                 earlierVars, detailsVars, cameraVars>>

\* The home screen's events under profile updates and the answer to getEvents.
DeriveNext ==
  \/ \E value \in ProfileEventValues : ProfileChange(value)
  \/ \E i \in 1..Len(eventFetches) :
       \E r \in FetchedEventsResponses : HomeEventsSettled(i, r)

\* ------------------------------------------- home screen, earlier variant
\* The home screen before tasks were loaded from the backend: the tasks
\* created in the session are kept in createdTasks. The cells modalVisible,
\* taskInfo, formError and isSubmitting are those of the later variant. No
\* events are loaded here, so the event dropdown has nothing to select and
\* selectedEventId stays undefined.
TASK_TYPES == <<"Connect", "Other">>

EarlierDefaults ==
  /\ createdTasks = <<>>
  /\ taskType = TASK_TYPES[1]

\* The task document of a create-task response.
TaskPayload(mongoId, id) == [_id |-> mongoId, id |-> id]

TaskPayloads ==
  { TaskPayload("t9", "t8"), TaskPayload(Undefined, "t8"),
    TaskPayload(Undefined, Undefined) }

\* POST /create-task, with the task field.
CreateTaskResponses ==
  { Resolved(TRUE, Undefined, TRUE, <<t>>) : t \in TaskPayloads }
    \cup { Resolved(TRUE, Undefined, FALSE, <<>>),
           Resolved(FALSE, Undefined, TRUE, <<TaskPayload("t9", "t8")>>) }
    \cup { Resolved(FALSE, e, FALSE, <<>>) : e \in ErrorFields }
    \cup { Rejected(m) : m \in RejectionMessages }

\* Values of Date.now().
Instants == {1}

TaskEntry(id, label, type) ==
  [id |-> id, label |-> label, type |-> type, eventName |-> Undefined]

EarlierHandleOpenModal ==
  /\ ~modalVisible
  /\ taskInfo' = EmptyText
  /\ taskType' = TASK_TYPES[1]
  /\ formError' = Null
  /\ modalVisible' = TRUE
  /\ UNCHANGED <<username, fetchedEvents, loadingEvents, tasks,
                 loadingTasks, finishedCount, isSubmitting, eventFetches,
                 taskLoads, createTaskCalls, createdTasks>>
  /\ UNCHANGED <<peopleVars, clientVars, profileVars, sessionVars,
                 detailsVars, cameraVars>>

\* A task type option of the create-task form is pressed.
setTaskType(option) ==
  /\ modalVisible
  /\ option # taskType
  /\ taskType' = option
  /\ UNCHANGED <<username, homeVars, createdTasks>>
  /\ UNCHANGED <<peopleVars, clientVars, profileVars, sessionVars,
                 detailsVars, cameraVars>>

\* "Save task" (disabled while isSubmitting): handleCreateTask of the earlier
\* variant up to its await.
EarlierHandleCreateTask ==
  /\ modalVisible
  /\ ~isSubmitting
  /\ IF username = NoUser
       THEN /\ formError' = "User not available"
            /\ UNCHANGED <<isSubmitting, createTaskCalls>>
       ELSE IF trim(taskInfo) = EmptyText
       THEN /\ formError' = "Task info is required"
            /\ UNCHANGED <<isSubmitting, createTaskCalls>>
       ELSE /\ Len(createdTasks) < MaxCreated
            /\ isSubmitting' = TRUE
            /\ formError' = Null
            /\ createTaskCalls' =
                 Append(createTaskCalls,
                        [user |-> username, info |-> trim(taskInfo),
                         type |-> taskType])
  /\ UNCHANGED <<username, fetchedEvents, loadingEvents, tasks,
                 loadingTasks, finishedCount, modalVisible, taskInfo,
                 eventFetches, taskLoads, earlierVars>>
  /\ UNCHANGED <<peopleVars, clientVars, profileVars, sessionVars,
                 detailsVars, cameraVars>>

\* An update that puts the new task behind the ones already there.
PrependedLast(newTask, prev) == Append(prev, newTask)

\* setCreatedTasks((prev) => [newTask, ...prev])
Prepended(newTask, prev) == <<newTask>> \o prev

\* createTask settles: the rest of the earlier handleCreateTask, through its
\* finally. The label and the type are those of the render that submitted.
EarlierCreateTaskSettled(i, response, now) ==
  LET call == createTaskCalls[i]
      task == response.data[1]
      newTask ==
        TaskEntry(OrElse(task._id, OrElse(task.id, "task-" \o ToString(now))),
                  call.info, call.type)
  IN
  /\ createTaskCalls' = RemoveAt(createTaskCalls, i)
  /\ IF response.outcome = "rejected"
       THEN /\ formError' = response.message
            /\ UNCHANGED <<createdTasks, modalVisible>>
       ELSE IF response.success /\ response.hasData
       THEN /\ createdTasks' = Prepended(newTask, createdTasks)
            /\ modalVisible' = FALSE
            /\ UNCHANGED formError
       ELSE /\ formError' = OrElse(response.error, "Failed to create task")
            /\ UNCHANGED <<createdTasks, modalVisible>>
  /\ isSubmitting' = FALSE
  /\ UNCHANGED <<username, fetchedEvents, loadingEvents, tasks,
                 loadingTasks, finishedCount, taskInfo, eventFetches,
                 taskLoads, taskType>>
  /\ UNCHANGED <<peopleVars, clientVars, profileVars, sessionVars,
                 detailsVars, cameraVars>>

EarlierNext ==
  \/ EarlierHandleOpenModal
  \/ handleCloseModal
  \/ \E text \in Texts : setTaskInfo(text)
  \/ \E option \in {TASK_TYPES[k] : k \in 1..Len(TASK_TYPES)} :
       setTaskType(option)
  \/ EarlierHandleCreateTask
  \/ \E i \in 1..Len(createTaskCalls) : \E r \in CreateTaskResponses :
       \E now \in Instants : EarlierCreateTaskSettled(i, r, now)

\* --------------------------------------------- home screen, task details
DetailsDefaults ==
  /\ taskDetailsVisible = FALSE
  /\ selectedTask = NoTask
  /\ isCompletingTask = FALSE
  /\ taskDetailsError = Null
  /\ updateTaskCalls = <<>>

\* A task document with both of its id fields.
TaskFields(u, mongoId, id, status) ==
  [owner |-> u, _id |-> mongoId, id |-> id, status |-> status]

DetailTaskLists(u) ==
  { <<>>,
    <<TaskFields(u, "t1", Undefined, "completed"),
      TaskFields(u, "", "t2", "pending"),
      TaskFields(u, Undefined, Undefined, "pending")>> }

\* GET /get-user-tasks?username=u, with documents that carry both id fields.
DetailTasksResponses(u) ==
  { Resolved(TRUE, Undefined, TRUE, l) : l \in DetailTaskLists(u) }
    \cup { Rejected(m) : m \in RejectionMessages }

pendingTasks == SelectSeq(tasks, LAMBDA t : t.status # "completed")

\* A row of the task list is pressed (the list lies behind the modal).
handleOpenTaskDetails(task) ==
  /\ ~taskDetailsVisible
  /\ selectedTask' = task
  /\ taskDetailsError' = Null
  /\ taskDetailsVisible' = TRUE
  /\ UNCHANGED <<isCompletingTask, updateTaskCalls>>
  /\ UNCHANGED <<username, homeVars, peopleVars, clientVars, profileVars,
                 sessionVars, earlierVars, cameraVars>>

\* Close, the backdrop, or the platform's request to close the modal.
handleCloseTaskDetails ==
  /\ taskDetailsVisible
  /\ CloseTaskDetails
  /\ UNCHANGED updateTaskCalls
  /\ UNCHANGED <<username, homeVars, peopleVars, clientVars, profileVars,
                 sessionVars, earlierVars, cameraVars>>

\* "Complete" (disabled while isCompletingTask): handleCompleteSelectedTask up
\* to its first await.
handleCompleteSelectedTask ==
  LET taskId == OrElse(selectedTask._id, selectedTask.id) IN
  /\ taskDetailsVisible
  /\ ~isCompletingTask
  /\ IF username = NoUser
       THEN /\ taskDetailsError' = "User not available"
            /\ UNCHANGED <<isCompletingTask, updateTaskCalls>>
       ELSE IF OrElse(taskId, Undefined) = Undefined
       THEN /\ taskDetailsError' = "Task id missing"
            /\ UNCHANGED <<isCompletingTask, updateTaskCalls>>
       ELSE /\ HomeInFlight < MaxHomeInFlight
            /\ isCompletingTask' = TRUE
            /\ taskDetailsError' = Null
            /\ updateTaskCalls' =
                 Append(updateTaskCalls, [user |-> username, taskId |-> taskId])
  /\ UNCHANGED <<taskDetailsVisible, selectedTask>>
  /\ UNCHANGED <<username, homeVars, peopleVars, clientVars, profileVars,
                 sessionVars, earlierVars, cameraVars>>

\* A handler that closes the modal as soon as updateTask succeeded, while
\* the tasks are still being loaded.
UpdateTaskSucceededClosesAtOnce(call) ==
  /\ StartLoadTasks(call.user, "completeTask")
  /\ CloseTaskDetails

\* updateTask answered success:true: `await loadTasks(username)` starts, with
\* the username of the render that pressed Complete.
UpdateTaskSucceeded(call) ==
  /\ StartLoadTasks(call.user, "completeTask")
  /\ UNCHANGED <<taskDetailsVisible, selectedTask, taskDetailsError,
                 isCompletingTask>>

\* updateTask settles: the rest of handleCompleteSelectedTask up to its next
\* await (loadTasks on success) or through its finally.
UpdateTaskSettled(i, response) ==
  LET call == updateTaskCalls[i] IN
  /\ updateTaskCalls' = RemoveAt(updateTaskCalls, i)
  /\ IF response.outcome = "rejected"
       THEN /\ taskDetailsError' = response.message
            /\ isCompletingTask' = FALSE
            /\ UNCHANGED <<taskDetailsVisible, selectedTask, loadingTasks,
                           taskLoads>>
       ELSE IF ~response.success
       THEN /\ taskDetailsError' =
                 OrElse(response.error, "Failed to complete task")
            /\ isCompletingTask' = FALSE
            /\ UNCHANGED <<taskDetailsVisible, selectedTask, loadingTasks,
                           taskLoads>>
       ELSE UpdateTaskSucceeded(call)
  /\ UNCHANGED <<username, fetchedEvents, loadingEvents, tasks, finishedCount,
                 modalVisible, taskInfo, formError, isSubmitting, eventFetches,
                 createTaskCalls>>
  /\ UNCHANGED <<peopleVars, clientVars, profileVars, sessionVars,
                 earlierVars, cameraVars>>

DetailsNext ==
  \/ \E u \in Users \cup {NoUser} : HomeUsernameChange(u)
  \/ \E i \in 1..Len(eventFetches) :
       \E r \in { Rejected(m) : m \in RejectionMessages } :
         HomeEventsSettled(i, r)
  \/ \E i \in 1..Len(taskLoads) :
       \E r \in DetailTasksResponses(taskLoads[i].user) :
         HomeTasksSettled(i, r, r)
  \/ \E k \in 1..Len(pendingTasks) : handleOpenTaskDetails(pendingTasks[k])
  \/ handleCloseTaskDetails
  \/ handleCompleteSelectedTask
  \/ \E i \in 1..Len(updateTaskCalls) :
       \E r \in MutationResponses : UpdateTaskSettled(i, r)

\* ---------------------------------------------------------- camera screen
\* The screen once the camera permission is granted.
CameraDefaults ==
  /\ scanned = FALSE
  /\ statusMessage = Null
  /\ scanCalls = <<>>
  /\ resetTimer = FALSE

\* The data of a scanned QR code, parsed as far as the regex looks: scheme,
\* host and the segments of the path.
Url(scheme, host, path) == [scheme |-> scheme, host |-> host, path |-> path]

ScannedUrls ==
  { Url("https", "www.linkedin.com", <<"in", "carol">>),
    Url("http", "linkedin.com", <<"in", "dave", "details">>),
    Url("https", "linkedin.com", <<"in", "erin">>),
    Url("http", "www.linkedin.com", <<"in", "carol">>),
    Url("https", "www.linkedin.com", <<"in", "dave">>),
    Url("http", "linkedin.com", <<"in", "erin", "recent-activity">>),
    Url("https", "linkedin.com", <<"in", "frank">>),
    Url("https", "www.linkedin.com", <<"company", "acme">>),
    Url("https", "www.linkedin.com", <<"in">>),
    Url("ftp", "linkedin.com", <<"in", "carol">>),
    Url("https", "example.com", <<"in", "carol">>) }

\* url.match(/^https?:\/\/(?:www\.)?linkedin\.com\/in\/([^/?]+)/): the
\* captured group, or null.
extractLinkedInUsername(url) ==
  IF /\ url.scheme \in {"http", "https"}
     /\ url.host \in {"linkedin.com", "www.linkedin.com"}
     /\ Len(url.path) >= 2 /\ url.path[1] = "in" /\ url.path[2] # ""
    THEN url.path[2] ELSE Null

\* The UserContext value changes; the screen has no effect on it.
CameraUsernameChange(u) ==
  /\ u # username
  /\ username' = u
  /\ UNCHANGED <<homeVars, peopleVars, clientVars, profileVars, sessionVars,
                 earlierVars, detailsVars, cameraVars>>

\* onBarcodeScanned: handleBarcodeScanned up to its await, or through
\* setTimeout when nothing is awaited; handleLinkedInQR up to its first await.
handleBarcodeScanned(url) ==
  LET linkedInUsername == extractLinkedInUsername(url) IN
  /\ IF scanned
       THEN UNCHANGED cameraVars
       ELSE /\ scanned' = TRUE
            /\ IF linkedInUsername = Null
                 THEN /\ statusMessage' = "QR Code scanned (not a LinkedIn profile)"
                      /\ resetTimer' = TRUE
                      /\ UNCHANGED scanCalls
                 ELSE IF username = NoUser
                 THEN /\ statusMessage' = "Please log in to add connections"
                      /\ resetTimer' = TRUE
                      /\ UNCHANGED scanCalls
                 ELSE /\ scanCalls' =
                           Append(scanCalls,
                                  [kind |-> "addConnection", user |-> username,
                                   name |-> linkedInUsername, url |-> url])
                      /\ UNCHANGED <<statusMessage, resetTimer>>
  /\ UNCHANGED <<username, homeVars, peopleVars, clientVars, profileVars,
                 sessionVars, earlierVars, detailsVars>>

\* A flow that goes on to createTask whatever addConnection answered.
ConnectionAddedUnchecked(response) == TRUE

\* if (!connectionResponse.success) throw ...
ConnectionAdded(response) == response.success

\* The catch of handleLinkedInQR, then the setTimeout of handleBarcodeScanned.
ScanFailed(message) ==
  /\ statusMessage' = "Error: " \o message
  /\ resetTimer' = TRUE

\* addConnection settles: handleLinkedInQR up to its second await, or through
\* its catch.
ScanAddConnectionSettled(i, response) ==
  LET call == scanCalls[i] IN
  /\ call.kind = "addConnection"
  /\ IF response.outcome = "rejected"
       THEN /\ ScanFailed(response.message)
            /\ scanCalls' = RemoveAt(scanCalls, i)
       ELSE IF ConnectionAdded(response)
       THEN /\ scanCalls' = [scanCalls EXCEPT ![i].kind = "createTask"]
            /\ UNCHANGED <<statusMessage, resetTimer>>
       ELSE /\ ScanFailed(OrElse(response.error, "Failed to add connection"))
            /\ scanCalls' = RemoveAt(scanCalls, i)
  /\ UNCHANGED scanned
  /\ UNCHANGED <<username, homeVars, peopleVars, clientVars, profileVars,
                 sessionVars, earlierVars, detailsVars>>

\* createTask settles: the rest of handleLinkedInQR, then the setTimeout of
\* handleBarcodeScanned.
ScanCreateTaskSettled(i, response) ==
  LET call == scanCalls[i] IN
  /\ call.kind = "createTask"
  /\ scanCalls' = RemoveAt(scanCalls, i)
  /\ IF response.outcome = "rejected"
       THEN ScanFailed(response.message)
       ELSE IF ~response.success
       THEN ScanFailed(OrElse(response.error, "Failed to create task"))
       ELSE /\ statusMessage' = "Added " \o call.name \o " as a connection!"
            /\ resetTimer' = TRUE
  /\ UNCHANGED scanned
  /\ UNCHANGED <<username, homeVars, peopleVars, clientVars, profileVars,
                 sessionVars, earlierVars, detailsVars>>

\* The callback of setTimeout(..., 3000) runs.
ScanReset ==
  /\ resetTimer
  /\ scanned' = FALSE
  /\ statusMessage' = Null
  /\ resetTimer' = FALSE
  /\ UNCHANGED scanCalls
  /\ UNCHANGED <<username, homeVars, peopleVars, clientVars, profileVars,
                 sessionVars, earlierVars, detailsVars>>

CameraNext ==
  \/ \E u \in Users \cup {NoUser} : CameraUsernameChange(u)
  \/ \E url \in ScannedUrls : handleBarcodeScanned(url)
  \/ \E i \in 1..Len(scanCalls) : \E r \in MutationResponses :
       ScanAddConnectionSettled(i, r)
  \/ \E i \in 1..Len(scanCalls) : \E r \in MutationResponses :
       ScanCreateTaskSettled(i, r)
  \/ ScanReset

\* ---------------------------------------------------------- specifications
\* The events derivation of a home screen mounted under "alice".
DeriveInit ==
  /\ username = "alice" /\ HomeInit("alice") /\ PeopleDefaults /\ ClientIdle
  /\ ProfileDefaults /\ SessionDefaults /\ EarlierDefaults
    /\ DetailsDefaults /\ CameraDefaults

DeriveSpec == DeriveInit /\ [][DeriveNext]_vars

HomeFetchNext ==
  \/ \E u \in Users \cup {NoUser} : HomeUsernameChange(u)
  \/ \E i \in 1..Len(eventFetches) :
       \E r \in GetEventsResponses(eventFetches[i].user) : HomeEventsSettled(i, r)
  \/ \E i \in 1..Len(taskLoads) :
       \E r1, r2 \in GetUserTasksResponses(taskLoads[i].user) :
         HomeTasksSettled(i, r1, r2)

PeopleNext ==
  \/ \E u \in Users \cup {NoUser} : PeopleUsernameChange(u)
  \/ \E i \in 1..Len(connectionLoads) :
       \E r \in GetConnectionsResponses(connectionLoads[i].user) :
         PeopleConnectionsSettled(i, r)
  \/ openConnectionModal
  \/ handleDismissModal
  \/ \E text \in Texts : setConnectionName(text)
  \/ \E text \in Texts : setConnectionNote(text)
  \/ handleCreateConnection
  \/ \E i \in 1..Len(addConnectionCalls) :
       \E r \in MutationResponses : PeopleAddConnectionSettled(i, r)

\* The home screen mounted under any UserContext value.
HomeMounted ==
  \E u \in Users \cup {NoUser} :
    username = u /\ HomeInit(u) /\ PeopleDefaults /\ ClientIdle /\ ProfileDefaults
    /\ SessionDefaults /\ EarlierDefaults
    /\ DetailsDefaults /\ CameraDefaults

\* The people screen mounted under any UserContext value.
PeopleMounted ==
  \E u \in Users \cup {NoUser} :
    username = u /\ PeopleInit(u) /\ HomeDefaults /\ ClientIdle /\ ProfileDefaults
    /\ SessionDefaults /\ EarlierDefaults
    /\ DetailsDefaults /\ CameraDefaults

\* The REST client alone, before any screen is mounted.
ClientInit ==
  /\ username = NoUser /\ HomeDefaults /\ PeopleDefaults
  /\ ClientIdle /\ ProfileDefaults /\ SessionDefaults /\ EarlierDefaults
    /\ DetailsDefaults /\ CameraDefaults

ClientSpec == ClientInit /\ [][ClientNext]_vars

\* TabLayout mounted with no session; the tab screens are not mounted yet.
SessionInit ==
  /\ username = NoUser /\ HomeDefaults /\ PeopleDefaults /\ ClientIdle
  /\ ProfileDefaults /\ SessionDefaults /\ EarlierDefaults
    /\ DetailsDefaults /\ CameraDefaults

\* The sign-in form of TabLayout and the answers to login and register.
SessionSpec == SessionInit /\ [][SessionNext]_vars

\* The earlier home screen with its create-task form, mounted under any
\* UserContext value; its events are not followed.
EarlierMounted ==
  \E u \in Users \cup {NoUser} :
    /\ username = u /\ HomeDefaults /\ PeopleDefaults /\ ClientIdle
    /\ ProfileDefaults /\ SessionDefaults /\ EarlierDefaults
    /\ DetailsDefaults /\ CameraDefaults

EarlierSpec == EarlierMounted /\ [][EarlierNext]_vars

\* The home screen with its task-details modal.
DetailsSpec == HomeMounted /\ [][DetailsNext]_vars

\* The camera screen mounted under any UserContext value.
CameraMounted ==
  \E u \in Users \cup {NoUser} :
    /\ username = u /\ HomeDefaults /\ PeopleDefaults /\ ClientIdle
    /\ ProfileDefaults /\ SessionDefaults /\ EarlierDefaults
    /\ DetailsDefaults /\ CameraDefaults

CameraSpec == CameraMounted /\ [][CameraNext]_vars

\* The home screen under username changes and the answers to its fetches.
HomeFetchSpec == HomeMounted /\ [][HomeFetchNext]_vars

\* The home screen with its create-task form.
HomeSpec == HomeMounted /\ [][HomeNext]_vars

\* The people screen with its add-connection form.
PeopleSpec == PeopleMounted /\ [][PeopleNext]_vars

\* ------------------------------------------------------------- properties
\* Vocabulary of the properties, stated without the handlers' helpers.
IsBlank(text) == \A k \in 1..Len(text) : text[k] = " "

IsFailure(response) == response.outcome = "rejected" \/ ~response.success

IsSuccess(response) == response.outcome = "resolved" /\ response.success

OwnedBy(records, u) == \A k \in 1..Len(records) : records[k].owner = u

NoHomeFetchFor(u) ==
  /\ \A k \in 1..Len(eventFetches) : eventFetches[k].user # u
  /\ \A k \in 1..Len(taskLoads) : taskLoads[k].user # u

\* C1: home screen, username changed from alice to bob while alice's fetches
\* were in flight: once bob's responses have all arrived and the screen shows
\* the tasks returned for bob, the arrival of alice's late responses changes
\* neither the tasks, nor the finished count, nor the fetched events.
C1_LateAliceResponsesLeaveBobsData ==
  [][ ( /\ username = "bob" /\ username' = "bob"
        /\ NoHomeFetchFor("bob")
        /\ tasks # <<>> /\ OwnedBy(tasks, "bob") )
        => UNCHANGED <<tasks, finishedCount, fetchedEvents>> ]_vars

\* C2: a getEvents response, success or failure, for a fetch started under a
\* username that has since changed is discarded: the step that consumes it
\* changes neither fetchedEvents nor loadingEvents.
C2_StaleEventsResponseDiscarded ==
  [][ \A i \in 1..Len(eventFetches) :
        (eventFetches[i].stale /\ eventFetches' = RemoveAt(eventFetches, i))
          => UNCHANGED <<fetchedEvents, loadingEvents>> ]_vars

\* C2 witness: the new user's events are displayed and the loading flag is
\* down while a fetch started under the previous username is still in flight.
C2_Witness ==
  /\ username \in Users
  /\ ~loadingEvents
  /\ fetchedEvents # <<>> /\ OwnedBy(fetchedEvents, username)
  /\ \E i \in 1..Len(eventFetches) :
       eventFetches[i].stale /\ eventFetches[i].user # username

\* C3: people screen, two getConnections fetches triggered by successive
\* username changes: when the later-triggered one (for the active username)
\* has completed, the completion of the earlier one changes neither the
\* connections list nor the error flag.
C3_EarlierLoadDoesNotOverwrite ==
  [][ \A i \in 1..Len(connectionLoads) :
        ( /\ username # NoUser
          /\ connectionLoads[i].origin = "effect"
          /\ connectionLoads[i].user # username
          /\ \A j \in 1..Len(connectionLoads) :
               connectionLoads[j].user # username
          /\ connectionLoads' = RemoveAt(connectionLoads, i) )
          => UNCHANGED <<connections, error>> ]_vars

\* C4: people screen: whenever addConnection answers success:false or throws,
\* the form shows an error message, the modal is left as it is, the form
\* fields are kept, and the connections list is neither changed nor refetched.
C4_AddConnectionFailureKeepsForm ==
  [][ \A i \in 1..Len(addConnectionCalls) : \A r \in MutationResponses :
        (IsFailure(r) /\ PeopleAddConnectionSettled(i, r))
          => /\ peopleFormError' # Null
             /\ peopleModalVisible' = peopleModalVisible
             /\ UNCHANGED <<connectionName, connectionNote, connections,
                            connectionLoads>> ]_vars

\* The message C5 expects in formError for a failed createTask.
ExpectedCreateTaskError(r) ==
  IF r.outcome = "rejected" THEN r.message
  ELSE IF r.error \in {Undefined, ""} THEN "Failed to create task"
  ELSE r.error

\* C5: home screen: whenever createTask answers success:false or throws,
\* formError is the response's error (or the thrown message, or 'Failed to
\* create task'), the handler does not close the modal, the task list is
\* unchanged and no refetch of tasks is issued.
C5_CreateTaskFailureKeepsForm ==
  [][ createTaskCalls' # createTaskCalls =>
        \A i \in 1..Len(createTaskCalls) : \A r \in MutationResponses :
          (IsFailure(r) /\ HomeCreateTaskSettled(i, r))
            => /\ formError' = ExpectedCreateTaskError(r)
               /\ modalVisible' = modalVisible
               /\ ~isSubmitting'
               /\ UNCHANGED <<tasks, finishedCount, taskLoads, loadingTasks>> ]_vars

\* C5 witness: the form shows the server's message after a failed createTask,
\* with the modal open and nothing in flight.
C5_Witness ==
  /\ modalVisible
  /\ formError = "Server says no"
  /\ ~isSubmitting
  /\ createTaskCalls = <<>>
  /\ taskLoads = <<>>

\* C6 as claimed: whenever the task info is empty after trimming, Save is
\* rejected with formError 'Task info is required', no createTask request is
\* issued, and isSubmitting, the modal and the task list are unchanged.
C6_BlankInfoRejected_AsClaimed ==
  [][ (IsBlank(taskInfo) /\ handleCreateTask)
        => /\ formError' = "Task info is required"
           /\ UNCHANGED <<createTaskCalls, isSubmitting, modalVisible, tasks,
                          taskLoads>> ]_vars

\* C6 as amended: the same while a user is active; with no active user the
\* submission is rejected too, with formError 'User not available'.
C6_BlankInfoRejected ==
  [][ (IsBlank(taskInfo) /\ handleCreateTask)
        => /\ formError' = IF username = NoUser THEN "User not available"
                           ELSE "Task info is required"
           /\ UNCHANGED <<createTaskCalls, isSubmitting, modalVisible, tasks,
                          taskLoads>> ]_vars

\* C6 witness: a whitespace-only description was rejected under an active user.
C6_Witness ==
  /\ username # NoUser
  /\ modalVisible
  /\ taskInfo = <<" ">>
  /\ formError = "Task info is required"
  /\ ~isSubmitting
  /\ createTaskCalls = <<>>

\* C7: people screen: when addConnection answers success:true the modal
\* closes, both form fields are reset to the empty string and one
\* getConnections refetch is issued; a successful answer to that refetch
\* replaces the connections list.
C7_AddConnectionSuccess ==
  [][ /\ addConnectionCalls' # addConnectionCalls =>
           \A i \in 1..Len(addConnectionCalls) : \A r \in MutationResponses :
             (IsSuccess(r) /\ PeopleAddConnectionSettled(i, r))
               => /\ ~peopleModalVisible'
                  /\ connectionName' = EmptyText
                  /\ connectionNote' = EmptyText
                  /\ Len(connectionLoads') = Len(connectionLoads) + 1
                  /\ connectionLoads'[Len(connectionLoads')] =
                       [user |-> addConnectionCalls[i].user,
                        origin |-> "addConnection"]
      /\ Len(connectionLoads') < Len(connectionLoads) =>
           \A i \in 1..Len(connectionLoads) :
             \A r \in GetConnectionsResponses(connectionLoads[i].user) :
               ( /\ connectionLoads[i].origin = "addConnection"
                 /\ IsSuccess(r)
                 /\ PeopleConnectionsSettled(i, r) )
                 => connections' = IF r.hasData THEN r.data ELSE <<>> ]_vars

\* C7 witness: the modal is closed with its fields reset, and the list shows
\* the connections a refetch issued after addConnection has brought.
C7_Witness ==
  /\ ~peopleModalVisible
  /\ connectionName = EmptyText /\ connectionNote = EmptyText
  /\ ~isSubmittingConnection
  /\ addConnectionCalls = <<>>
  /\ \E i \in 1..Len(connectionLoads) :
       connectionLoads[i].origin = "addConnection"

\* A home-screen state cell holds a displayable error string. formError is the
\* only error cell the events effect, loadTasks and the create-task form can
\* write (taskDetailsError belongs to the complete-task dialog alone).
HomeErrorShown == formError # Null

\* C8: every failure of a request made by a screen ends with a displayable
\* error string in that screen's state; stated for the home screen's fetches
\* of events and tasks made for the active user.
C8_FetchFailureShowsError ==
  [][ ( \/ \E i \in 1..Len(eventFetches) :
             \E r \in GetEventsResponses(eventFetches[i].user) :
               ~eventFetches[i].stale /\ IsFailure(r) /\ HomeEventsSettled(i, r)
        \/ \E i \in 1..Len(taskLoads) :
             \E r1, r2 \in GetUserTasksResponses(taskLoads[i].user) :
               /\ taskLoads[i].user = username
               /\ IsFailure(r1) \/ r2.outcome = "rejected"
               /\ HomeTasksSettled(i, r1, r2) )
        => HomeErrorShown' ]_vars

\* C9: while no user is active the fetched collections are empty, also after
\* a fetch started for the previous user has completed.
C9_LoggedOutCollectionsEmpty ==
  username = NoUser
    => /\ fetchedEvents = <<>>
       /\ tasks = <<>>
       /\ finishedCount = 0
       /\ connections = <<>>

\* C10: no loading flag is up while none of its screen's requests is
\* outstanding (a flag in that state stays up for good).
C10_NoLoadingWithoutRequest ==
  /\ loadingEvents => eventFetches # <<>>
  /\ loadingTasks => taskLoads # <<>>
  /\ loading => connectionLoads # <<>>

\* How many records of a task list are completed.
CompletedCount(list) ==
  Cardinality({ k \in 1..Len(list) : list[k].status = "completed" })

\* C11: home screen task load: getUserTasks and getFinishedTasks are
\* independent: when the request of one fails and the other's succeeds, the
\* result of the successful one is still applied (tasks, or finishedCount).
C11_LoadTasksFetchesIndependent ==
  [][ Len(taskLoads') < Len(taskLoads) =>
        \A i \in 1..Len(taskLoads) :
          \A r1, r2 \in GetUserTasksResponses(taskLoads[i].user) :
            HomeTasksSettled(i, r1, r2)
              => /\ (IsSuccess(r1) /\ r1.hasData /\ IsFailure(r2) /\ r2.outcome = "rejected")
                      => tasks' = r1.data
                 /\ (IsFailure(r1) /\ IsSuccess(r2) /\ r2.hasData)
                      => finishedCount' = CompletedCount(r2.data) ]_vars

\* The n-th completed record of a task list, counted from the front.
NthCompleted(list, n) ==
  list[CHOOSE j \in 1..Len(list) :
         /\ list[j].status = "completed"
         /\ CompletedCount(SubSeq(list, 1, j)) = n]

\* The tasks a response body gives, an absent field counting as the empty list.
TasksGiven(body) ==
  IF body.kind = "object" /\ body.tasks.present THEN body.tasks.list ELSE <<>>

\* C12: whenever the request under getFinishedTasks resolved (2xx), the call
\* resolves with success:true and exactly the completed tasks of the
\* response, in their original order (an absent tasks field is the empty list).
C12_GetFinishedTasksFiltersCompleted ==
  (clientCall = "getFinishedTasks" /\ clientResponse.status \in 200..299)
    => LET given == TasksGiven(clientResponse.body)
           out == clientResult.data
       IN  /\ clientResult.outcome = "resolved"
           /\ clientResult.success
           /\ Len(out) = CompletedCount(given)
           /\ \A n \in 1..Len(out) : out[n] = NthCompleted(given, n)

\* C13: on a response whose status is not 2xx the call fails, with the body's
\* error field as message when the body is a JSON object with a non-empty
\* string error field, and with 'Request failed with status <code>' otherwise.
C13_NonOkFailsWithMessage ==
  (clientResponse # NoResponse /\ clientResponse.status \notin 200..299)
    => LET body == clientResponse.body
       IN  /\ clientResult.outcome = "rejected"
           /\ clientResult.message =
                IF /\ body.kind = "object"
                   /\ body.error.t = "string"
                   /\ body.error.v # ""
                  THEN body.error.v
                  ELSE "Request failed with status "
                         \o ToString(clientResponse.status)

\* C13 witness: a 401 whose body is {error: "bad creds"} has surfaced as the
\* message "bad creds".
C13_Witness ==
  /\ clientResponse.status = 401
  /\ clientResponse.body.kind = "object"
  /\ clientResponse.body.error = JsonString("bad creds")
  /\ clientResult.outcome = "rejected"
  /\ clientResult.message = "bad creds"

\* C14: for a plain request the HTTP status alone decides between resolving
\* and failing; a body that is no JSON resolves to null under a 2xx status and
\* fails with the generic status message otherwise.
C14_UnparseableBodyIsNoError ==
  (clientCall = "getUserTasks" /\ clientResponse # NoResponse)
    => LET body == clientResponse.body
           status == clientResponse.status
       IN  /\ (clientResult.outcome = "resolved") <=> (status \in 200..299)
           /\ (clientResult.outcome = "rejected") <=> (status \notin 200..299)
           /\ body.kind = "unparseable" =>
                IF status \in 200..299
                  THEN clientResult.isNull
                  ELSE clientResult.message =
                         "Request failed with status " \o ToString(status)

\* C14 witness: a 2xx response with a body that is no JSON has resolved to null.
C14_Witness ==
  /\ clientCall = "getUserTasks"
  /\ clientResponse.status = 204
  /\ clientResponse.body.kind = "unparseable"
  /\ clientResult.outcome = "resolved"
  /\ clientResult.isNull

\* A field holds a usable identifier or name: present and not the empty string.
Present(v) == v # Undefined /\ v # ""

\* The id the spec gives an object entry or fetched record at position k:
\* its _id, else its id, else the placeholder of its 0-based index.
IdByPrecedence(e, k) ==
  IF Present(e._id) THEN e._id
  ELSE IF Present(e.id) THEN e.id
  ELSE "event-" \o ToString(k - 1)

\* C15: every event record derived for display, from the fetched collection
\* or from the profile's embedded array, has an id that is a non-empty string.
C15_DerivedIdsNonEmpty ==
  \A k \in 1..Len(events.list) : Present(events.list[k].id)

\* C16: an embedded object entry of user.events at 0-based index i yields the
\* id _id when present (a non-empty string), else id when present, else
\* 'event-<i>'.
C16_ObjectEntryIdPrecedence ==
  (fetchedEvents = <<>> /\ ~events.threw)
    => \A k \in 1..Len(userEvents) :
         userEvents[k].kind = "object"
           => events.list[k].id = IdByPrecedence(userEvents[k], k)

\* C16 witness: at index 1 an entry with _id 'A' and id 'B' has yielded 'A',
\* after an entry with neither, which has yielded 'event-0'.
C16_Witness ==
  /\ fetchedEvents = <<>> /\ eventFetches = <<>>
  /\ userEvents = <<ObjectEntry(Undefined, Undefined, Undefined),
                    ObjectEntry("A", "B", "Launch")>>
  /\ events.list[1].id = "event-0"
  /\ events.list[2].id = "A"

\* C17: a bare string entry of user.events at 0-based index i yields a record
\* whose id is that string and whose name is 'Event <i+1>'.
C17_StringEntryNormalized ==
  (fetchedEvents = <<>> /\ ~events.threw)
    => \A k \in 1..Len(userEvents) :
         userEvents[k].kind = "string"
           => /\ events.list[k].id = userEvents[k].value
              /\ events.list[k].name = "Event " \o ToString(k)

\* C17 witness: the string 'evt-9' at index 1 is displayed as 'Event 2'.
C17_Witness ==
  /\ fetchedEvents = <<>> /\ eventFetches = <<>>
  /\ ~events.threw
  /\ Len(userEvents) = 2
  /\ userEvents[2] = StringEntry("evt-9")
  /\ events.list[2] = DisplayEvent("evt-9", "Event 2")

\* C18 as claimed: when user.events is absent or not a sequence, the derived
\* event list is empty and the derivation does not throw.
C18_NoProfileEventsEmptyList_AsClaimed ==
  profileEvents.shape # "array" => (~events.threw /\ events.list = <<>>)

\* C18 as amended: when user.events is absent or not a sequence, the
\* derivation does not throw and takes no entry from the profile: the list
\* holds one record per fetched record, and is empty when none was fetched.
C18_NoProfileEventsEmptyList ==
  profileEvents.shape # "array"
    => /\ ~events.threw
       /\ Len(events.list) = Len(fetchedEvents)
       /\ fetchedEvents = <<>> => events.list = <<>>

\* C18 witness: user.events is a value that is no array, getEvents has
\* answered with no record, and the display list is empty.
C18_Witness ==
  /\ profileEvents = NotAnArray("string")
  /\ eventFetches = <<>> /\ fetchedEvents = <<>>
  /\ ~events.threw /\ events.list = <<>>

\* C19: when at least one record was fetched the display list is built from
\* the fetched records only, in their order; otherwise from user.events only.
C19_EventSourceSelection ==
  /\ fetchedEvents # <<>>
       => /\ ~events.threw
          /\ Len(events.list) = Len(fetchedEvents)
          /\ \A k \in 1..Len(fetchedEvents) :
               events.list[k].id = IdByPrecedence(fetchedEvents[k], k)
  /\ (fetchedEvents = <<>> /\ ~events.threw)
       => /\ Len(events.list) = Len(userEvents)
          /\ \A k \in 1..Len(userEvents) :
               events.list[k].id =
                 IF userEvents[k].kind = "string" THEN userEvents[k].value
                 ELSE IdByPrecedence(userEvents[k], k)

\* C19 witness: two records were fetched while user.events holds two other
\* entries, and the display list shows the two fetched records in order.
C19_Witness ==
  /\ fetchedEvents = <<EventFields("alice", Undefined, "e2", "Kickoff"),
                       EventRecord("alice", "e1")>>
  /\ userEvents = <<StringEntry("evt-9"), ObjectEntry("A", "B", "Launch")>>
  /\ events.list = <<DisplayEvent("e2", "Kickoff"), DisplayEvent("e1", "Event 2")>>

\* C20: no request is retried; stated for the people screen: a step issues at
\* most one request, and a step that consumes a failed response (a rejection
\* or success:false) issues none.
C20_NoRequestAfterFailedResponse ==
  [][ (connectionLoads' # connectionLoads \/ addConnectionCalls' # addConnectionCalls)
        => /\ PeopleInFlight' <= PeopleInFlight + 1
           /\ \A i \in 1..Len(addConnectionCalls) : \A r \in MutationResponses :
                (IsFailure(r) /\ PeopleAddConnectionSettled(i, r))
                  => PeopleInFlight' = PeopleInFlight - 1
           /\ \A i \in 1..Len(connectionLoads) :
                \A r \in GetConnectionsResponses(connectionLoads[i].user) :
                  (IsFailure(r) /\ PeopleConnectionsSettled(i, r))
                    => PeopleInFlight' = PeopleInFlight - 1 ]_vars

C22_NonNumericPhoneAlwaysRejected ==
  (pressed = "register" /\ Number(trim(phoneNumber)).isNaN)
    => authError = "Phone number must be numeric" /\ authCalls = <<>>

\* C22: the register handler changes nothing and issues no request when
\* username, password, email or phone is blank or a login / register call is in
\* flight; otherwise, when the phone number does not parse as a number, it
\* sets the error 'Phone number must be numeric' and issues no request.
C22_RegisterValidation ==
  [][ pressed' = "register" =>
        LET incomplete == \/ IsBlank(loginUsername) \/ IsBlank(password)
                          \/ IsBlank(email) \/ IsBlank(phoneNumber)
            busy == authCalls # <<>>
        IN  /\ (incomplete \/ busy) => UNCHANGED formVars
            /\ (~incomplete /\ ~busy /\ Number(trim(phoneNumber)).isNaN)
                 => /\ authError' = "Phone number must be numeric"
                    /\ authCalls' = <<>> /\ ~authLoading'
                    /\ user' = NoSessionUser
    ]_vars

C22_Witness ==
  /\ pressed = "register" /\ authError = "Phone number must be numeric"
  /\ authCalls = <<>> /\ Number(trim(phoneNumber)).isNaN

\* C23: on the earlier home screen, when createTask resolves with success:true
\* and a task, the new task becomes the head of createdTasks, the entries that
\* were there follow it unchanged and in their order, the list is longer by
\* one, the modal is closed and no request is issued.
C23_NewTaskPlacedAtHead ==
  [][ \A i \in 1..Len(createTaskCalls) : \A r \in CreateTaskResponses :
        \A now \in Instants :
          (EarlierCreateTaskSettled(i, r, now) /\ IsSuccess(r) /\ r.hasData)
            => /\ Len(createdTasks') = Len(createdTasks) + 1
               /\ Head(createdTasks').label = createTaskCalls[i].info
               /\ Head(createdTasks').type = createTaskCalls[i].type
               /\ \A k \in 1..Len(createdTasks) :
                    createdTasks'[k + 1] = createdTasks[k]
               /\ ~modalVisible'
               /\ HomeInFlight' = HomeInFlight - 1
               /\ UNCHANGED <<eventFetches, taskLoads>>
    ]_vars

C23_Witness ==
  /\ Len(createdTasks) = 3 /\ createdTasks[2] # createdTasks[3]
  /\ ~modalVisible /\ createTaskCalls = <<>>

\* The selected task has no _id and no id.
HasNoId(task) == task._id \in {Undefined, ""} /\ task.id \in {Undefined, ""}

\* C24 as stated, its last part: whenever Complete is pressed on a task with
\* no _id and no id, the error becomes 'Task id missing' and no request is
\* issued.
C24_MissingIdAlwaysReported ==
  [][ (handleCompleteSelectedTask /\ HasNoId(selectedTask))
        => /\ taskDetailsError' = "Task id missing"
           /\ UNCHANGED updateTaskCalls
    ]_vars

\* C24: the handler closes the task-details modal only when the loadTasks it
\* started after updateTask answered success:true has finished; when
\* updateTask answers success:false or throws, the modal is left as it is,
\* taskDetailsError is set, tasks are unchanged and no request is issued;
\* while a user is active, Complete on a task with no _id and no id sets the
\* error 'Task id missing' and issues no request; with no active user the
\* error is 'User not available', whatever the task.
C24_CompleteTask ==
  [][ /\ (taskDetailsVisible /\ ~taskDetailsVisible')
           => \/ handleCloseTaskDetails
              \/ \E i \in 1..Len(taskLoads) :
                   /\ taskLoads[i].origin = "completeTask"
                   /\ taskLoads' = RemoveAt(taskLoads, i)
      /\ (/\ Len(taskLoads') > Len(taskLoads)
          /\ taskLoads'[Len(taskLoads')].origin = "completeTask")
             => \E i \in 1..Len(updateTaskCalls) : \E r \in MutationResponses :
                  UpdateTaskSettled(i, r) /\ IsSuccess(r)
      /\ \A i \in 1..Len(updateTaskCalls) : \A r \in MutationResponses :
           (UpdateTaskSettled(i, r) /\ IsFailure(r))
             => /\ taskDetailsVisible' = taskDetailsVisible
                /\ taskDetailsError' \notin {Null, Undefined, ""}
                /\ UNCHANGED <<tasks, finishedCount, taskLoads, eventFetches,
                               createTaskCalls>>
      /\ (handleCompleteSelectedTask /\ username = NoUser)
           => /\ taskDetailsError' = "User not available"
              /\ UNCHANGED <<updateTaskCalls, taskLoads, eventFetches,
                             createTaskCalls, isCompletingTask>>
      /\ (handleCompleteSelectedTask /\ username # NoUser
            /\ HasNoId(selectedTask))
           => /\ taskDetailsError' = "Task id missing"
              /\ UNCHANGED <<updateTaskCalls, taskLoads, eventFetches,
                             createTaskCalls, isCompletingTask>>
    ]_vars

\* updateTask succeeded and the refetch is in flight: the modal is still open.
C24_Witness ==
  /\ taskDetailsVisible /\ isCompletingTask
  /\ \E k \in 1..Len(taskLoads) : taskLoads[k].origin = "completeTask"
  /\ updateTaskCalls = <<>>

\* C25: with no fetch of the home screen in flight, the fetched events and the
\* tasks it holds are empty or were returned for the active username.
C25_HeldDataBelongsToActiveUser ==
  (eventFetches = <<>> /\ taskLoads = <<>>)
    => OwnedBy(fetchedEvents, username) /\ OwnedBy(tasks, username)

\* C26: with no task load in flight, finishedCount is the number of completed
\* entries of tasks.
C26_FinishedCountMatchesTasks ==
  taskLoads = <<>> => finishedCount = CompletedCount(tasks)

\* C27: loadingTasks is true exactly when a task load is in flight.
C27_LoadingIffLoadInFlight == loadingTasks <=> taskLoads # <<>>

\* C28: at most one addConnection call of the form is in flight, and
\* isSubmittingConnection is true while one is.
C28_OneSubmissionAtATime ==
  /\ Len(addConnectionCalls) <= 1
  /\ addConnectionCalls # <<>> => isSubmittingConnection

\* C29: every getConnections request issued carries the username active when
\* it is issued, and none is issued while no user is active.
C29_RequestsCarryActiveUsername ==
  [][ Len(connectionLoads') > Len(connectionLoads)
        => /\ username' # NoUser
           /\ connectionLoads'[Len(connectionLoads')].user = username'
    ]_vars

\* Messages a failed call of the scan flow can end with.
ScanFailureMessages ==
  RejectionMessages \cup (ErrorFields \ {Undefined, ""})
    \cup {"Failed to add connection", "Failed to create task"}

StartsWithError(message) ==
  \E m \in ScanFailureMessages : message = "Error: " \o m

ScanNames == { extractLinkedInUsername(url) : url \in ScannedUrls } \ {Null}

\* C30: in the scan flow createTask is issued only when addConnection
\* answered success:true; 'Added <name> as a connection!' is shown only when
\* createTask, hence both calls, answered success:true; a failure of either
\* call shows a status starting with 'Error: '; while scanned is true no new
\* flow starts, so at most one call of the flow is in flight.
C30_ScanFlow ==
  [][ /\ (\E k \in 1..Len(scanCalls') : scanCalls'[k].kind = "createTask")
           => \/ \E k \in 1..Len(scanCalls) : scanCalls[k].kind = "createTask"
              \/ \E i \in 1..Len(scanCalls) : \E r \in MutationResponses :
                   /\ ScanAddConnectionSettled(i, r) /\ IsSuccess(r)
      /\ (/\ statusMessage' # statusMessage
          /\ \E n \in ScanNames :
               statusMessage' = "Added " \o n \o " as a connection!")
           => \E i \in 1..Len(scanCalls) : \E r \in MutationResponses :
                /\ ScanCreateTaskSettled(i, r) /\ IsSuccess(r)
                /\ statusMessage' =
                     "Added " \o scanCalls[i].name \o " as a connection!"
      /\ \A i \in 1..Len(scanCalls) : \A r \in MutationResponses :
           (/\ ScanAddConnectionSettled(i, r) \/ ScanCreateTaskSettled(i, r)
            /\ IsFailure(r))
             => StartsWithError(statusMessage') /\ scanCalls' = <<>>
      /\ scanned
           => /\ Len(scanCalls') <= Len(scanCalls)
              /\ \A k \in 1..Len(scanCalls') :
                   scanCalls'[k].kind = "addConnection"
                     => scanCalls' = scanCalls
      /\ Len(scanCalls') <= 1
    ]_vars

C30_Witness ==
  /\ scanned /\ resetTimer /\ scanCalls = <<>>
  /\ statusMessage = "Added carol as a connection!"

====
